---- MODULE Spec2Model ----
(***************************************************************************)
(* Model of api/src/tree.rs: convert and its inner make_tree, which turn   *)
(* a flat sequence of (indent, item) pairs into a forest.  The recursion   *)
(* of make_tree is unfolded into an explicit call stack; one action per    *)
(* outcome of an iteration of the `while let` loop.                        *)
(*                                                                         *)
(* Model of api/src/lib.rs story_details: the loop that builds the comment *)
(* tree with a parent stack, statement by statement where the order of the *)
(* statements matters, and of the two consumers of the tree, the GraphQL   *)
(* flattening (graphql/src/main.rs) and the CLI printing (cli/src/main.rs).*)
(*                                                                         *)
(* Model of the GraphQL resolvers `stories` and `upvoteStory`              *)
(* (graphql/src/main.rs) with the site they send requests to.              *)
(***************************************************************************)
EXTENDS Integers, Sequences, FiniteSets, TLC

\* ---------------------------------------------------------------- bounds
MaxLen == 4        \* longest enumerated input
MaxIndent == 3     \* largest enumerated indent value

\* ------------------------------------------------------------ the inputs
\* Items are distinct tokens (the tests use the characters 'a'..'j'; the
\* callers use comment ids): the item of the entry at position i is
\* Letters[i].
Letters == <<"a", "b", "c", "d", "e", "f", "g", "h", "i", "j">>

Entry(ind, val) == [ind |-> ind, val |-> val]

WithItems(indents) == [i \in 1..Len(indents) |-> Entry(indents[i], Letters[i])]

IndentSeqs == UNION {[1..n -> 0..MaxIndent] : n \in 0..MaxLen}

\* input of tests::convert_something_returns_something
RegressionIndents == <<0, 1, 2, 1, 2, 2, 0, 1, 1, 0>>
RegressionInput == WithItems(RegressionIndents)

Inputs == {WithItems(s) : s \in IndentSeqs} \cup {RegressionInput}

\* ------------------------------------------------------ the constructors
SubTreeNew(val, children) == [val |-> val, children |-> children]

TreeNew(children) == [children |-> children]

\* expected value of tests::convert_something_returns_something
RegressionExpected ==
    TreeNew(<<
        SubTreeNew("a", <<
            SubTreeNew("b", <<SubTreeNew("c", <<>>)>>),
            SubTreeNew("d", <<SubTreeNew("e", <<>>), SubTreeNew("f", <<>>)>>)
        >>),
        SubTreeNew("g", <<SubTreeNew("h", <<>>), SubTreeNew("i", <<>>)>>),
        SubTreeNew("j", <<>>)
    >>)

\* -------------------------------------------------- the pieces of make_tree
\* `ind < indent`: the loop stops
BreaksAnyOther(ind, indent) == ind # indent
BreaksLate(ind, indent) == ind + 1 < indent
BreaksEarly(ind, indent) == ind <= indent
Breaks(ind, indent) == ind < indent

\* `ind == indent`: the entry becomes a node of this level
MatchesDeeper(ind, indent) == ind >= indent
Matches(ind, indent) == ind = indent

\* `ind + 1`: the threshold of the recursive call
ChildIndentSame(ind) == ind
ChildIndent(ind) == ind + 1

\* it.next(): a slice iterator steps to the following entry
IterNextStuck(it) == it
IterNext(it) == it + 1

\* `let mut it = it.clone()`: a callee advances its own copy of the
\* cursor, so the caller's cursor after the call is what it was before
IterAfterCallShared(callerIt, calleeIt) == calleeIt
IterAfterCall(callerIt, calleeIt) == callerIt

\* children.push(..)
PushFront(children, node) == <<node>> \o children
Push(children, node) == Append(children, node)

\* ----------------------------------------------------------------- state
VARIABLES
    input,     \* the Vec<(usize, T)> convert was called with
    pc,        \* "start": convert not yet entered; "run"; "done": returned
    stack,     \* make_tree invocations, innermost last
    result,    \* the Tree convert returned (when pc = "done")
    reads      \* reads[i]: the invocations (by id) next() yielded entry i to

cvVars == <<input, pc, stack, result, reads>>

\* ------------------------------------------- state of story_details
VARIABLES
    sdIn,          \* the scraped page: the indents of its comment rows and
                   \* the base of their ids
    sdPc,          \* position in story_details, see the actions
    sdPos,         \* the comment of the current iteration (0 before the first)
    comments,      \* `comments`: the top-level list
    parent_stack,  \* `parent_stack`
    local_parent,  \* `parent` of the else branch (0: not bound)
    childrenOf,    \* childrenOf[c]: the `children` cell of comment c
    parentOf,      \* parentOf[c]: the `parent` cell of comment c
    alive,         \* the comments that are allocated and not freed
    flat,          \* what Comment::flatten_tree returned last
    printed        \* what the print_comment traversal wrote last

sdVars == <<sdIn, sdPc, sdPos, comments, parent_stack, local_parent,
            childrenOf, parentOf, alive, flat, printed>>

\* ----------------------------------------- state of the GraphQL server
VARIABLES
    auth_token,    \* Context.auth_token of the request being served
    request,       \* the operation and input of the request being served
    sent,          \* the requests the resolver sent to the site
    reply          \* what the resolver returned

gqlVars == <<auth_token, request, sent, reply>>

\* ------------------------------------------------- state of the CLI
VARIABLES
    file,          \* the content of the state file ~/.hn.json
    state,         \* `state` of main when the last command ended
    cmd,           \* the subcommand and argument of the last command
    fetched,       \* the requests the last command sent to the site
    resolved,      \* what get_story_from_matches returned to the last command
    out,           \* how the last command ended
    saved,         \* whether the last command called save_state
    listed         \* by rank, the story the last list command that ended
                   \* well listed at that rank

cliVars == <<file, state, cmd, fetched, resolved, out, saved, listed>>

vars == <<cvVars, sdVars, gqlVars, cliVars>>

\* Option: None, or Some(x)
None == [none |-> TRUE]

Some(x) == [some |-> x]

\* story_details not called
SdIdle ==
    /\ sdIn = [indents |-> <<>>, idBase |-> [hi |-> 0, lo |-> 0]]
    /\ sdPc = "idle"
    /\ sdPos = 0
    /\ comments = <<>>
    /\ parent_stack = <<>>
    /\ local_parent = 0
    /\ childrenOf = <<>>
    /\ parentOf = <<>>
    /\ alive = {}
    /\ flat = None
    /\ printed = None

\* no request received
GqlIdle ==
    /\ auth_token = None
    /\ request = None
    /\ sent = <<>>
    /\ reply = None

\* the file does not exist
Missing == [missing |-> TRUE]

\* State::default()
Default == [last_stories |-> None, auth |-> None]

\* HashMap::new()
EmptyMap == [r \in {} |-> None]

\* no command run
CliIdle ==
    /\ file = Missing
    /\ state = Default
    /\ cmd = None
    /\ fetched = <<>>
    /\ resolved = None
    /\ out = None
    /\ saved = FALSE
    /\ listed = EmptyMap

\* convert not called
CvIdle ==
    /\ input = <<>>
    /\ pc = "idle"
    /\ stack = <<>>
    /\ result = [children |-> <<>>]
    /\ reads = <<>>

\* One make_tree invocation: its cursor `it` (position of the entry next()
\* yields next), its threshold `indent`, its `children` so far, the entry
\* whose subtree the invocation it is waiting for collects (`pending`, 0
\* when it waits for none), and `id`, the position of the entry the
\* invocation collects the children of (0: convert's call).
Frame(it, indent, id) ==
    [it |-> it, indent |-> indent, children |-> <<>>, pending |-> 0, id |-> id]

\* An invocation reads an entry at most once and there are at most
\* Len(input) + 1 invocations: the guard below caps the log there.
MaxReads == Len(input) + 1

NoTree == TreeNew(<<>>)

Init ==
    /\ input \in Inputs
    /\ pc = "start"
    /\ stack = <<>>
    /\ result = NoTree
    /\ reads = [i \in 1..Len(input) |-> <<>>]
    /\ SdIdle
    /\ GqlIdle
    /\ CliIdle

Top == stack[Len(stack)]

SetTop(f) == [stack EXCEPT ![Len(stack)] = f]

\* convert: `let mut it = input.iter(); make_tree(&mut it, 0)`
ConvertCall ==
    /\ pc = "start"
    /\ pc' = "run"
    /\ stack' = <<Frame(1, 0, 0)>>
    /\ UNCHANGED <<input, result, reads, sdVars, gqlVars, cliVars>>

CanRead ==
    /\ pc = "run"
    /\ Top.it <= Len(input)
    /\ Len(reads[Top.it]) < MaxReads

Cur == input[Top.it]

Read == reads' = [reads EXCEPT ![Top.it] = Append(@, Top.id)]

\* make_tree returns `children`, its cursor being at `it`: to the make_tree
\* that called it, which wraps them in the node of its pending entry, or
\* to convert.
Return(children, it) ==
    IF Len(stack) = 1
    THEN /\ stack' = <<>>
         /\ result' = TreeNew(children)
         /\ pc' = "done"
    ELSE LET caller == stack[Len(stack) - 1]
             node == SubTreeNew(input[caller.pending].val, children)
             back == [caller EXCEPT
                        !.it = IterAfterCall(caller.it, it),
                        !.children = Push(caller.children, node),
                        !.pending = 0]
         IN /\ stack' = Append(SubSeq(stack, 1, Len(stack) - 2), back)
            /\ UNCHANGED <<result, pc>>

\* next() yields an entry with ind < indent: break, return children
IterBreak ==
    /\ CanRead
    /\ Breaks(Cur.ind, Top.indent)
    /\ Read
    /\ Return(Top.children, IterNext(Top.it))
    /\ UNCHANGED <<input, sdVars, gqlVars, cliVars>>

\* next() yields an entry with ind == indent: recursive call for its subtree
IterMatch ==
    /\ CanRead
    /\ ~Breaks(Cur.ind, Top.indent)
    /\ Matches(Cur.ind, Top.indent)
    /\ Read
    /\ LET it1 == IterNext(Top.it)
           caller == [Top EXCEPT !.it = it1, !.pending = Top.it]
       IN stack' = Append(SetTop(caller),
                          Frame(it1, ChildIndent(Cur.ind), Top.it))
    /\ UNCHANGED <<input, pc, result, sdVars, gqlVars, cliVars>>

\* next() yields an entry with ind > indent: neither branch, next iteration
IterSkip ==
    /\ CanRead
    /\ ~Breaks(Cur.ind, Top.indent)
    /\ ~Matches(Cur.ind, Top.indent)
    /\ Read
    /\ stack' = SetTop([Top EXCEPT !.it = IterNext(Top.it)])
    /\ UNCHANGED <<input, pc, result, sdVars, gqlVars, cliVars>>

\* next() yields None: the loop ends, return children
IterEnd ==
    /\ pc = "run"
    /\ Top.it > Len(input)
    /\ Return(Top.children, Top.it)
    /\ UNCHANGED <<input, reads, sdVars, gqlVars, cliVars>>

Next == ConvertCall \/ IterBreak \/ IterMatch \/ IterSkip \/ IterEnd

Spec == Init /\ [][Next]_vars

\* a sequential program takes its next step whenever it has one
FairSpec == Spec /\ WF_vars(Next)

\* ------------------------------------------------ reading a forest back
\* position of the entry an item comes from (items are distinct)
PosOf(val) == CHOOSE i \in 1..Len(Letters) : Letters[i] = val

IndentOf(val) == input[PosOf(val)].ind

RECURSIVE PreOrder(_)
\* the items of a list of subtrees, each node before its children
PreOrder(children) ==
    IF children = <<>> THEN <<>>
    ELSE <<Head(children).val>> \o PreOrder(Head(children).children)
                               \o PreOrder(Tail(children))

RECURSIVE NodesOf(_)
\* the nodes (as subtrees) of a list of subtrees
NodesOf(children) ==
    IF children = <<>> THEN {}
    ELSE {Head(children)} \cup NodesOf(Head(children).children)
                          \cup NodesOf(Tail(children))

RECURSIVE Links(_, _, _)
\* [pos, parent, depth] of every node; parent is 0 for a root
Links(children, parent, depth) ==
    IF children = <<>> THEN {}
    ELSE {[pos |-> PosOf(Head(children).val), parent |-> parent, depth |-> depth]}
         \cup Links(Head(children).children, PosOf(Head(children).val), depth + 1)
         \cup Links(Tail(children), parent, depth)

\* positions of the entries strictly below a node
Below(node) == {PosOf(PreOrder(node.children)[k]) : k \in 1..Len(PreOrder(node.children))}

Occurrences(seq, v) == Cardinality({k \in 1..Len(seq) : seq[k] = v})

Done == pc = "done"

N == Len(input)

\* no indent gaps: empty, or first indent 0 and each step up is by one
GapFree ==
    \/ N = 0
    \/ /\ input[1].ind = 0
       /\ \A i \in 2..N : input[i].ind <= input[i - 1].ind + 1

\* ----------------------------------------------------------------- C1
\* nearest preceding entry with indent one less (0: there is none)
NearestShallower(j) ==
    LET c == {i \in 1..(j - 1) : input[i].ind + 1 = input[j].ind}
    IN IF c = {} THEN 0 ELSE CHOOSE i \in c : \A h \in c : h <= i

\* the entries among positions `from`.. that hang under p (0: the roots)
RECURSIVE Expected(_, _)
Expected(p, from) ==
    IF from > N THEN <<>>
    ELSE IF (p = 0 /\ input[from].ind = 0) \/ (p > 0 /\ NearestShallower(from) = p)
         THEN <<SubTreeNew(input[from].val, Expected(from, from + 1))>>
              \o Expected(p, from + 1)
         ELSE Expected(p, from + 1)

\* C1: on an input without indent gaps convert returns the forest whose
\* roots are the entries of indent 0 and in which every entry of indent
\* k > 0 is a child of the nearest preceding entry of indent k - 1; on the
\* 10-entry regression input it returns a:[b:[c], d:[e, f]], g:[h, i], j.
C1_GapFreeForest ==
    Done =>
        /\ GapFree => result = TreeNew(Expected(0, 1))
        /\ input = RegressionInput => result = RegressionExpected

\* convert has returned for the regression input, which is gap-free and
\* nests two levels deep
C1_Witness ==
    /\ Done
    /\ GapFree
    /\ input = RegressionInput
    /\ Len(result.children) = 3

\* ----------------------------------------------------------------- C2
AllZero == \A i \in 1..N : input[i].ind = 0

\* C2: when every entry has indent 0 the result has one root per entry, in
\* input order, each without children; the empty input gives no root.
C2_FlatSiblings ==
    (Done /\ AllZero) =>
        result.children = [i \in 1..N |-> SubTreeNew(input[i].val, <<>>)]

\* convert has returned for three entries of indent 0
C2_Witness == Done /\ AllZero /\ N = 3 /\ Len(result.children) = 3

\* ----------------------------------------------------------------- C3
Increasing(children) ==
    \A k \in 1..(Len(children) - 1) :
        PosOf(children[k].val) < PosOf(children[k + 1].val)

\* C3: for every input the roots, and the children of every node, are in
\* the relative order of their entries in the input.
C3_SiblingOrder ==
    Done =>
        /\ Increasing(result.children)
        /\ \A n \in NodesOf(result.children) : Increasing(n.children)

\* convert has returned a forest with two roots and a node of two children
C3_Witness ==
    /\ Done
    /\ Len(result.children) >= 2
    /\ \E n \in NodesOf(result.children) : Len(n.children) >= 2

\* ----------------------------------------------------------------- C4
\* C4: on an input without indent gaps the forest has as many nodes as the
\* input has entries.
C4_NodeCount == (Done /\ GapFree) => Len(PreOrder(result.children)) = N

\* convert has returned for a gap-free input that has nested entries
C4_Witness ==
    /\ Done
    /\ GapFree
    /\ N >= 3
    /\ \E i \in 1..N : input[i].ind > 0
    /\ Len(PreOrder(result.children)) = N

\* ----------------------------------------------------------------- C5
EachOnce == \A i \in 1..N : Occurrences(PreOrder(result.children), input[i].val) = 1

\* C5 as stated: for every input, whatever its indents, each entry produces
\* exactly one node.
C5_Original == Done => EachOnce

\* C5 amended: for every input no entry produces two nodes, every node
\* comes from an entry, and on an input without indent gaps each entry
\* produces exactly one node; an entry the builder passes over because of
\* an indent gap produces none.
C5_AtMostOnce ==
    Done =>
        /\ \A i \in 1..N : Occurrences(PreOrder(result.children), input[i].val) <= 1
        /\ \A k \in 1..Len(PreOrder(result.children)) :
               \E i \in 1..N : input[i].val = PreOrder(result.children)[k]
        /\ GapFree => EachOnce

\* convert has returned a forest that lacks an entry of a gapped input
C5_Witness ==
    /\ Done
    /\ ~GapFree
    /\ Len(PreOrder(result.children)) >= 2
    /\ ~EachOnce

\* ----------------------------------------------------------------- C6
\* first position after i whose indent is <= that of i, or N + 1
RunEnd(i) ==
    LET c == {j \in (i + 1)..N : input[j].ind <= input[i].ind}
    IN IF c = {} THEN N + 1 ELSE CHOOSE j \in c : \A h \in c : j <= h

Run(i) == (i + 1)..(RunEnd(i) - 1)

InForest == {PosOf(n.val) : n \in NodesOf(result.children)}

\* C6 as stated: for every input, the entries below a node are exactly the
\* run of entries that follow its entry up to the next entry whose indent
\* is not greater.
C6_Original ==
    Done => \A n \in NodesOf(result.children) : Below(n) = Run(PosOf(n.val))

\* C6 amended: for every input, the entries below a node are exactly the
\* entries of that run that produced a node; on an input without indent
\* gaps that is the whole run.
C6_SubtreeRun ==
    Done =>
        \A n \in NodesOf(result.children) :
            /\ Below(n) = Run(PosOf(n.val)) \cap InForest
            /\ GapFree => Below(n) = Run(PosOf(n.val))

\* convert has returned a node whose run holds a passed-over entry and an
\* entry that is below the node
C6_Witness ==
    /\ Done
    /\ \E n \in NodesOf(result.children) :
           /\ Below(n) # {}
           /\ Below(n) # Run(PosOf(n.val))

\* ----------------------------------------------------------------- C7
\* C7: for every input, a root comes from an entry of indent 0, a child
\* comes from an entry whose indent is one more than that of its parent's
\* entry and which follows it in the input; depth equals indent.
C7_DepthIsIndent ==
    Done =>
        \A l \in Links(result.children, 0, 0) :
            /\ input[l.pos].ind = l.depth
            /\ l.parent = 0 => input[l.pos].ind = 0
            /\ l.parent # 0 =>
                   /\ input[l.pos].ind = input[l.parent].ind + 1
                   /\ l.parent < l.pos

\* convert has returned, for an input with a gap, a forest with a node at
\* depth 2
C7_Witness ==
    /\ Done
    /\ ~GapFree
    /\ \E l \in Links(result.children, 0, 0) : l.depth = 2

\* ----------------------------------------------------------------- C8
\* the example of an indent gap: b is two levels below a
GapExample == WithItems(<<0, 2, 1>>)

\* entry g is an indent gap: more than one level below the entry before it
IsGap(g) == IF g = 1 THEN input[g].ind > 0 ELSE input[g].ind > input[g - 1].ind + 1

\* C8 as stated: the loop at threshold t stops at an indent gap, an entry
\* of indent greater than t, so no entry after the gap is added at that
\* level; [(0,a),(2,b),(1,c)] yields the single root a without children.
C8_Original ==
    Done =>
        /\ \A l \in Links(result.children, 0, 0) :
               ~\E g \in (l.parent + 1)..(l.pos - 1) :
                    IsGap(g) /\ input[g].ind > l.depth
        /\ input = GapExample => result = TreeNew(<<SubTreeNew("a", <<>>)>>)

\* nearest preceding entry with a smaller indent (0: there is none)
NearestSmaller(j) ==
    LET c == {i \in 1..(j - 1) : input[i].ind < input[j].ind}
    IN IF c = {} THEN 0 ELSE CHOOSE i \in c : \A h \in c : h <= i

\* C8 amended: the loop at threshold t passes over an entry of indent
\* greater than t and goes on collecting at that level; it stops only at an
\* entry of indent smaller than t.  So an entry of indent t is added under
\* node p exactly when p is the nearest preceding entry of smaller indent
\* and the indent of p is t - 1 (a root: no preceding entry is smaller and
\* t = 0); [(0,a),(2,b),(1,c)] yields the root a with the one child c.
C8_SkipsDeeper ==
    Done =>
        /\ \A j \in 1..N :
               j \in InForest <=>
                   IF NearestSmaller(j) = 0 THEN input[j].ind = 0
                   ELSE /\ NearestSmaller(j) \in InForest
                        /\ input[NearestSmaller(j)].ind + 1 = input[j].ind
        /\ \A l \in Links(result.children, 0, 0) : l.parent = NearestSmaller(l.pos)
        /\ input = GapExample =>
               result = TreeNew(<<SubTreeNew("a", <<SubTreeNew("c", <<>>)>>)>>)

\* convert has returned for the example: c, which follows the gap, is a
\* child of a
C8_Witness ==
    /\ Done
    /\ input = GapExample
    /\ PreOrder(result.children) = <<"a", "c">>

\* ----------------------------------------------------------------- C9
\* `ind + 1` cannot overflow: a threshold never exceeds the number of
\* entries before the cursor
ThresholdBounded == \A k \in 1..Len(stack) : stack[k].indent < stack[k].it

\* C9: for every input, whatever its indents, convert returns: every run
\* reaches the return of convert, and before that a step is always
\* possible and the threshold stays below the length of the input.
C9_Total ==
    /\ <>Done
    /\ [](~Done => ENABLED Next)
    /\ [](ThresholdBounded)

\* convert has returned for an input of full length whose first indent is
\* not 0 and which has a step of more than one
C9_Witness ==
    /\ Done
    /\ N = MaxLen
    /\ input[1].ind > 0
    /\ \E i \in 2..N : input[i].ind > input[i - 1].ind + 1

\* ---------------------------------------------------------------- C10
\* C10 as stated: during a call of convert each entry is read exactly once
\* across all invocations of make_tree.
C10_Original == Done => \A i \in 1..N : Len(reads[i]) = 1

\* the invocations that read entry i
ReadersOf(i) == {reads[i][k] : k \in 1..Len(reads[i])}

\* C10 amended: each invocation of make_tree makes a single pass over its
\* own copy of the cursor, so it reads an entry at most once, and the
\* invocation made by convert reads each entry exactly once; an entry read
\* by a recursive invocation is read again by its caller.
C10_OncePerInvocation ==
    Done =>
        /\ \A i \in 1..N :
               /\ Occurrences(reads[i], 0) = 1
               /\ \A id \in ReadersOf(i) : Occurrences(reads[i], id) = 1
        /\ \A l \in Links(result.children, 0, 0) :
               \A i \in 1..N :
                   l.pos \in ReadersOf(i) =>
                       \E k, m \in 1..Len(reads[i]) :
                           k < m /\ reads[i][k] = l.pos /\ reads[i][m] = l.parent

\* convert has returned and an entry was read by three invocations
C10_Witness ==
    /\ Done
    /\ \E i \in 1..N : Cardinality(ReadersOf(i)) >= 3

\* ======================================================== story_details
\* ------------------------------------------------------------ the page
\* Ids are u32 in the api crate and cast `as i32` in the GraphQL one.  A
\* u32 is kept as its two 16-bit halves [hi, lo], value hi * 2^16 + lo, so
\* that the values above the largest i32 can be written down.
Half == 65536
SignBit == 32768

U32(hi, lo) == [hi |-> hi, lo |-> lo]

\* u32 addition of a small number
U32Add(u, n) == U32((u.hi + ((u.lo + n) \div Half)) % Half, (u.lo + n) % Half)

\* ids of the comments of a page: small ones, or ones around the largest
\* i32 (2^31 - 3 is the base: the third comment gets 2^31)
IdBases == {U32(0, 0), U32(SignBit - 1, Half - 3)}

SdInputs == [indents : IndentSeqs, idBase : IdBases]

SdN == Len(sdIn.indents)

\* extract_comment_info: the id attribute of the row of comment c
IdOf(c) == U32Add(sdIn.idBase, c)

\* the `indent` of the iteration for comment c
RowIndent(c) == sdIn.indents[c]

\* Rc::downgrade(&parent): a Weak, which does not own
DowngradeOwning(p) == [to |-> p, strong |-> TRUE]
Downgrade(p) == [to |-> p, strong |-> FALSE]

\* `Some(Rc::downgrade(&parent))`: the back-reference designates the parent
ParentLinkSelf(p, c) == Some(Downgrade(c))
ParentLink(p, c) == Some(Downgrade(p))

RECURSIVE PopWhile(_, _)
\* a variant of PopWhile that pops nothing
PopWhileNever(st, indent) == st
\* `while indent < parent_stack.len() { parent_stack.pop(); }`
PopWhile(st, indent) ==
    IF indent < Len(st) THEN PopWhile(SubSeq(st, 1, Len(st) - 1), indent) ELSE st

SdInit ==
    /\ CvIdle
    /\ GqlIdle
    /\ CliIdle
    /\ sdIn \in SdInputs
    /\ sdPc = "loop"
    /\ sdPos = 0
    /\ comments = <<>>
    /\ parent_stack = <<>>
    /\ local_parent = 0
    /\ childrenOf = <<>>
    /\ parentOf = <<>>
    /\ alive = {}
    /\ flat = None
    /\ printed = None

\* lines 220-232: the next row; its indent; Rc::new(extract_comment_info),
\* whose cells are None and empty; the while loop
SdFetch ==
    /\ sdPc = "loop"
    /\ sdPos < SdN
    /\ sdPos' = sdPos + 1
    /\ alive' = alive \cup {sdPos + 1}
    /\ childrenOf' = Append(childrenOf, <<>>)
    /\ parentOf' = Append(parentOf, None)
    /\ parent_stack' = PopWhile(parent_stack, RowIndent(sdPos + 1))
    /\ sdPc' = "branch"
    /\ UNCHANGED <<sdIn, comments, local_parent, flat, printed, cvVars, gqlVars, cliVars>>

\* lines 234-236: `if indent == 0`
SdPushRoot ==
    /\ sdPc = "branch"
    /\ RowIndent(sdPos) = 0
    /\ comments' = Append(comments, sdPos)
    /\ parent_stack' = Append(parent_stack, sdPos)
    /\ sdPc' = "loop"
    /\ UNCHANGED <<sdIn, sdPos, local_parent, childrenOf, parentOf, alive,
                   flat, printed, cvVars, gqlVars, cliVars>>

\* line 238 on an empty stack: `parent_stack.pop().unwrap()` panics
SdPanic ==
    /\ sdPc = "branch"
    /\ RowIndent(sdPos) # 0
    /\ parent_stack = <<>>
    /\ sdPc' = "panic"
    /\ UNCHANGED <<sdIn, sdPos, comments, parent_stack, local_parent,
                   childrenOf, parentOf, alive, flat, printed, cvVars, gqlVars, cliVars>>

\* a variant of SdAttach that also pushes the comment to the top-level list
SdAttachAlsoRoot ==
    /\ sdPc = "branch"
    /\ RowIndent(sdPos) # 0
    /\ parent_stack # <<>>
    /\ local_parent' = parent_stack[Len(parent_stack)]
    /\ parent_stack' = SubSeq(parent_stack, 1, Len(parent_stack) - 1)
    /\ childrenOf' = [childrenOf EXCEPT ![local_parent'] = Append(@, sdPos)]
    /\ comments' = Append(comments, sdPos)
    /\ sdPc' = "linked"
    /\ UNCHANGED <<sdIn, sdPos, parentOf, alive, flat, printed,
                   cvVars, gqlVars, cliVars>>

\* lines 238-239: pop the parent, push the comment to its children
SdAttach ==
    /\ sdPc = "branch"
    /\ RowIndent(sdPos) # 0
    /\ parent_stack # <<>>
    /\ local_parent' = parent_stack[Len(parent_stack)]
    /\ parent_stack' = SubSeq(parent_stack, 1, Len(parent_stack) - 1)
    /\ childrenOf' = [childrenOf EXCEPT ![local_parent'] = Append(@, sdPos)]
    /\ sdPc' = "linked"
    /\ UNCHANGED <<sdIn, sdPos, comments, parentOf, alive, flat, printed,
                   cvVars, gqlVars, cliVars>>

\* a variant of SdSetParent that leaves the back-reference unset
SdSetParentSkip ==
    /\ sdPc = "linked"
    /\ parent_stack' = parent_stack \o <<local_parent, sdPos>>
    /\ local_parent' = 0
    /\ sdPc' = "loop"
    /\ UNCHANGED <<sdIn, sdPos, comments, childrenOf, parentOf, alive, flat,
                   printed, cvVars, gqlVars, cliVars>>

\* lines 240-242: set the back-reference, push parent and comment back
SdSetParent ==
    /\ sdPc = "linked"
    /\ parentOf' = [parentOf EXCEPT ![sdPos] = ParentLink(local_parent, sdPos)]
    /\ parent_stack' = parent_stack \o <<local_parent, sdPos>>
    /\ local_parent' = 0
    /\ sdPc' = "loop"
    /\ UNCHANGED <<sdIn, sdPos, comments, childrenOf, alive, flat, printed,
                   cvVars, gqlVars, cliVars>>

\* lines 244-251: the rows are exhausted; story_details returns the
\* top-level list, its parent_stack is dropped
SdReturn ==
    /\ sdPc = "loop"
    /\ sdPos = SdN
    /\ parent_stack' = <<>>
    /\ sdPc' = "returned"
    /\ UNCHANGED <<sdIn, sdPos, comments, local_parent, childrenOf, parentOf,
                   alive, flat, printed, cvVars, gqlVars, cliVars>>

\* ------------------------------------------------- the consumers
\* `id as i32`, `parent as i32`: a u32 above the largest i32 wraps to
\* its value minus 2^32
AsI32(u) == IF u.hi >= SignBit THEN (u.hi - Half) * Half + u.lo ELSE u.hi * Half + u.lo

\* `comment.children.borrow()`: the cell after the shared borrow has ended
AfterTake(cell) == <<>>
AfterBorrow(cell) == cell

RECURSIVE flatten_tree(_, _)
RECURSIVE from_api_comment(_, _)
\* graphql Comment::from_api_comment: the comment, then its flattened replies
from_api_comment(c, par) ==
    <<[parent |-> IF par = None THEN None ELSE Some(AsI32(par.some)),
       id |-> AsI32(IdOf(c)),
       children |-> [k \in 1..Len(childrenOf[c]) |-> AsI32(IdOf(childrenOf[c][k]))]]>>
    \o flatten_tree(childrenOf[c], Some(IdOf(c)))

\* graphql Comment::flatten_tree: flat_map of from_api_comment
flatten_tree(list, par) ==
    IF list = <<>> THEN <<>>
    ELSE from_api_comment(Head(list), par) \o flatten_tree(Tail(list), par)

RECURSIVE print_children(_, _)
RECURSIVE print_comment(_, _)
\* a variant of print_comment that prints the replies at the level of the
\* comment
print_commentSameLevel(c, level) ==
    <<[id |-> IdOf(c), level |-> level]>> \o print_children(childrenOf[c], level)
\* cli print_comment: the line of the comment, then its replies one level up
print_comment(c, level) ==
    <<[id |-> IdOf(c), level |-> level]>> \o print_children(childrenOf[c], level + 1)

\* the `for child_comment in children.iter()` of print_comment, and the
\* `for comment in comments` of print_story_details
print_children(list, level) ==
    IF list = <<>> THEN <<>>
    ELSE print_comment(Head(list), level) \o print_children(Tail(list), level)

\* graphql StoryWithDetails::from_api_story, called by Query::story on what
\* story_details returned
FromApiStory ==
    /\ sdPc = "returned"
    /\ flat' = Some(flatten_tree(comments, None))
    /\ childrenOf' = [c \in DOMAIN childrenOf |-> AfterBorrow(childrenOf[c])]
    /\ UNCHANGED <<sdIn, sdPc, sdPos, comments, parent_stack, local_parent,
                   parentOf, alive, printed, cvVars, gqlVars, cliVars>>

\* cli print_story_details: print_comment at level 0 for each top-level
\* comment (the comments are released afterwards, see SdDrop)
PrintStoryDetails ==
    /\ sdPc = "returned"
    /\ printed' = Some(print_children(comments, 0))
    /\ childrenOf' = [c \in DOMAIN childrenOf |-> AfterBorrow(childrenOf[c])]
    /\ UNCHANGED <<sdIn, sdPc, sdPos, comments, parent_stack, local_parent,
                   parentOf, alive, flat, gqlVars, cvVars, cliVars>>

\* --------------------------------------------------------- ownership
\* the comments c has an owning reference to: its children, and its parent
\* if the back-reference were owning
Owned(c) ==
    {childrenOf[c][k] : k \in 1..Len(childrenOf[c])}
    \cup (IF parentOf[c] # None /\ parentOf[c].some.strong THEN {parentOf[c].some.to} ELSE {})

\* number of owning references c holds to d
OwnedTimes(c, d) ==
    Occurrences(childrenOf[c], d)
    + (IF parentOf[c] # None /\ parentOf[c].some.strong /\ parentOf[c].some.to = d THEN 1 ELSE 0)

RECURSIVE SumOver(_, _, _)
SumOver(S, d, acc) ==
    IF S = {} THEN acc
    ELSE LET c == CHOOSE x \in S : TRUE
         IN SumOver(S \ {c}, d, acc + OwnedTimes(c, d))

\* Rc::strong_count of comment d: the top-level list, the parent stack, the
\* locals `parent` and `comment` of the loop body, and the live comments
StrongCount(d) ==
    Occurrences(comments, d) + Occurrences(parent_stack, d)
    + (IF local_parent = d THEN 1 ELSE 0)
    + (IF sdPc \in {"branch", "linked"} /\ sdPos = d THEN 1 ELSE 0)
    + SumOver(alive, d, 0)

RECURSIVE Release(_)
\* what stays allocated of S when nothing outside S owns any of it: a
\* comment is freed when no live comment owns it, and so on
Release(S) ==
    LET dead == {d \in S : \A c \in S : d \notin Owned(c)}
    IN IF dead = {} THEN S ELSE Release(S \ dead)

\* the caller drops the StoryWithDetails: the top-level list goes away
SdDrop ==
    /\ sdPc = "returned"
    /\ comments' = <<>>
    /\ alive' = Release(alive)
    /\ sdPc' = "dropped"
    /\ UNCHANGED <<sdIn, sdPos, parent_stack, local_parent, childrenOf,
                   parentOf, flat, printed, cvVars, gqlVars, cliVars>>

SdNext ==
    \/ SdFetch
    \/ SdPushRoot
    \/ SdPanic
    \/ SdAttach
    \/ SdSetParent
    \/ SdReturn
    \/ FromApiStory
    \/ PrintStoryDetails
    \/ SdDrop

SdSpec == SdInit /\ [][SdNext]_vars

\* ---------------------------------------------------------------- C11
Built == sdPc = "returned"

Created == 1..sdPos

ChildSet(p) == {childrenOf[p][k] : k \in 1..Len(childrenOf[p])}

TopLevel == {comments[k] : k \in 1..Len(comments)}

HasParent(c) == parentOf[c] # None

ParentOfC(c) == parentOf[c].some.to

\* C11: when story_details has built the tree, the back-reference of c
\* designates p exactly when c is in the children of p, and the top-level
\* list holds exactly the comments without a back-reference.
C11_LinksAgree ==
    Built =>
        /\ \A c, p \in Created : (HasParent(c) /\ ParentOfC(c) = p) <=> c \in ChildSet(p)
        /\ TopLevel = {c \in Created : ~HasParent(c)}

\* story_details has returned a tree with a reply to a reply and two
\* top-level comments
C11_Witness ==
    /\ Built
    /\ Len(comments) >= 2
    /\ \E c \in Created : HasParent(c) /\ HasParent(ParentOfC(c))

\* ---------------------------------------------------------------- C12
\* C12 as stated: a comment is never in a children list while its own
\* back-reference is unset.
C12_Original ==
    \A c, p \in Created : c \in ChildSet(p) => HasParent(c)

\* C12 amended: the comment is pushed to the children of its parent first
\* and its back-reference is set by the next statement.  A comment is in a
\* children list with its back-reference unset only between these two
\* statements, it is then the comment of the current iteration and the list
\* is that of the popped parent; a back-reference that is set designates a
\* comment whose children hold the comment.
C12_LinkedThenSet ==
    /\ \A c, p \in Created :
           (c \in ChildSet(p) /\ ~HasParent(c)) =>
               sdPc = "linked" /\ c = sdPos /\ p = local_parent
    /\ \A c \in Created : HasParent(c) => c \in ChildSet(ParentOfC(c))
    /\ sdPc = "linked" => sdPos \in ChildSet(local_parent) /\ ~HasParent(sdPos)

\* between the two statements: the reply is in the children of its parent,
\* its back-reference is unset
C12_Witness ==
    /\ sdPc = "linked"
    /\ sdPos \in ChildSet(local_parent)
    /\ ~HasParent(sdPos)
    /\ HasParent(local_parent)

\* ---------------------------------------------------------------- C13
RECURSIVE OwnedWithin(_, _)
\* the comments reached from the set S along at most n owning references
OwnedWithin(S, n) ==
    IF n = 0 THEN {}
    ELSE LET next == UNION {Owned(c) : c \in S}
         IN next \cup OwnedWithin(next, n - 1)

\* C13: owning references go from parent to child only: no comment owns
\* itself through a chain of them, no back-reference owns; once
\* story_details has returned every comment has one owner, and once the
\* top-level list is dropped no comment is left allocated.
C13_Ownership ==
    /\ \A c \in Created : c \notin OwnedWithin({c}, sdPos)
    /\ \A c \in Created : HasParent(c) => ~parentOf[c].some.strong
    /\ Built => \A c \in Created : StrongCount(c) = 1
    /\ sdPc = "dropped" => alive = {}

\* the list of a tree with a reply to a reply has been dropped, nothing is
\* left
C13_Witness ==
    /\ sdPc = "dropped"
    /\ sdPos = MaxLen
    /\ \E c \in Created : HasParent(c) /\ HasParent(ParentOfC(c))
    /\ alive = {}

\* ---------------------------------------------------------------- C14
RECURSIVE Attachments(_, _)
\* how often comment d occurs in the children lists of the comments 1..n
Attachments(n, d) ==
    IF n = 0 THEN 0 ELSE Occurrences(childrenOf[n], d) + Attachments(n - 1, d)

\* C14: when the construction completes every comment occurs once, in the
\* top-level list or in the children of one comment.
C14_AttachedOnce ==
    Built =>
        /\ sdPos = SdN
        /\ \A c \in 1..SdN : Occurrences(comments, c) + Attachments(SdN, c) = 1

\* story_details has returned top-level comments and replies
C14_Witness ==
    /\ Built
    /\ SdN = MaxLen
    /\ Len(comments) >= 2
    /\ \E c \in Created : HasParent(c)

\* ---------------------------------------------------------------- C15
RECURSIVE Ancestors(_, _)
\* the comments met by following the back-reference from c, at most n steps
Ancestors(c, n) ==
    IF n = 0 \/ ~HasParent(c) THEN <<>>
    ELSE <<ParentOfC(c)>> \o Ancestors(ParentOfC(c), n - 1)

\* C15: in a built tree the walk along the back-references from a comment
\* ends, before it has made as many steps as there are comments, at a
\* top-level comment; it meets live comments, no comment twice, each one
\* the parent of the one before; from a top-level comment it is empty.
C15_AncestorWalk ==
    Built =>
        \A c \in Created :
            LET a == Ancestors(c, sdPos + 1)
                at(k) == IF k = 0 THEN c ELSE a[k]
            IN /\ Len(a) < sdPos
               /\ \A k \in 1..Len(a) : at(k) \in alive /\ at(k - 1) \in ChildSet(at(k))
               /\ \A k, m \in 0..Len(a) : k # m => at(k) # at(m)
               /\ at(Len(a)) \in TopLevel /\ ~HasParent(at(Len(a)))
               /\ c \in TopLevel => a = <<>>

\* a built tree in which a comment has two ancestors
C15_Witness ==
    /\ Built
    /\ \E c \in Created : Len(Ancestors(c, sdPos + 1)) = 2

RECURSIVE PreOrderOf(_)
\* the comments of a list of trees, each before its replies
PreOrderOf(list) ==
    IF list = <<>> THEN <<>>
    ELSE <<Head(list)>> \o PreOrderOf(childrenOf[Head(list)]) \o PreOrderOf(Tail(list))

\* the i32 i is the number the u32 u is
IsId(i, u) == u.hi < SignBit /\ i = u.hi * Half + u.lo

\* C18: flatten_tree returns one flattened Comment per node of the tree, in
\* pre-order; its id is the id of the node, its parent is null exactly for
\* a top-level node and else the id of the parent of the node, its children
\* are the ids of the replies of the node in order.
C18_FlattenPreOrder ==
    (Built /\ flat # None) =>
        LET f == flat.some
            ord == PreOrderOf(comments)
        IN /\ Len(f) = sdPos
           /\ Len(ord) = sdPos
           /\ \A k \in 1..Len(f) :
                  LET c == ord[k]
                  IN /\ IsId(f[k].id, IdOf(c))
                     /\ f[k].parent = None <=> c \in TopLevel
                     /\ f[k].parent = None <=> ~HasParent(c)
                     /\ HasParent(c) => IsId(f[k].parent.some, IdOf(ParentOfC(c)))
                     /\ Len(f[k].children) = Len(childrenOf[c])
                     /\ \A j \in 1..Len(childrenOf[c]) :
                            IsId(f[k].children[j], IdOf(childrenOf[c][j]))

\* ===================================================== the GraphQL server
\* ------------------------------------------------------------- bounds
PerPage == 2        \* stories on a full page of the site
MaxSitePage == 2    \* last page the site has stories for

\* ------------------------------------------------------------- values
\* Result: Ok(x) or Err(message)
Ok(x) == [ok |-> x]

Err(msg) == [err |-> msg]

IsErr(r) == "err" \in DOMAIN r

I32Max == 2147483647

I32Min == (0 - I32Max) - 1

\* values of the `authorization` header: absent, or a token
Headers == {None, Some("t1"), Some("t2")}

\* UpvoteStoryInput.id (i32) and .upvote_auth
StoryIds == {I32Min, 0 - 1, 7, I32Max}

UpvoteAuths == {"a1", "a2"}

\* StoriesInListInput.list and .page (both optional, page an i32)
Lists == {"News", "Newest", "Ask", "Show", "Jobs", "Best"}

Pages == {I32Min, 0 - 1, 0} \cup 1..(MaxSitePage + 1) \cup {I32Max}

\* `input.id as u32`: an i32 below 0 wraps to its value plus 2^32
AsU32(i) == U32(((i \div Half) + Half) % Half, i % Half)

\* `input.page.unwrap_or(1) as usize`: an i32 below 0 is sign-extended, it
\* becomes its value plus 2^64.  A usize is kept as [high, low]: low is the
\* value, or, when high, the value minus (2^64 - 2^31).
AsUsize(i) ==
    IF i < 0 THEN [high |-> TRUE, low |-> (i + I32Max) + 1]
    ELSE [high |-> FALSE, low |-> i]

\* Option::unwrap_or
UnwrapOr(opt, dflt) == IF opt = None THEN dflt ELSE opt.some

\* `input.list.unwrap_or_default()`: the default list is the top stories
ListOrDefault(opt) == UnwrapOr(opt, "News")

\* ------------------------------------------------------------ the site
\* What the doc comment of StoriesInListInput.page says of the site: the
\* first page for a page number lower than 1, an empty page for one beyond
\* the last.
SitePageNumber(p) ==
    IF ~p.high /\ p.low < 1 THEN 1
    ELSE IF ~p.high /\ p.low <= MaxSitePage THEN p.low
    ELSE 0

\* the rows (rank and story) of page k of a list; none for k = 0
SiteRows(list, k) ==
    IF k = 0 THEN {}
    ELSE {[rank |-> r, story |-> <<list, r>>] : r \in ((k - 1) * PerPage + 1)..(k * PerPage)}

\* api stories_list: the map from rank to story of the page at `?p=`
stories_list(list, p) == SiteRows(list, SitePageNumber(p))

RECURSIVE SortedByRank(_)
\* `ranks.sort()` and the map to StoryWithRank
SortedByRank(rows) ==
    IF rows = {} THEN <<>>
    ELSE LET least == CHOOSE x \in rows : \A y \in rows : x.rank <= y.rank
         IN <<least>> \o SortedByRank(rows \ {least})

\* api upvote_story on the page the site answered with: the vote form is
\* there again when the site did not take the vote
upvote_storyAlwaysTrue(page) == IF page = "neterr" THEN Err("reqwest") ELSE Ok(TRUE)
upvote_story(page) ==
    IF page = "neterr" THEN Err("reqwest")
    ELSE IF page = "form" THEN Ok(FALSE)
    ELSE Ok(TRUE)

\* the pages the site may answer a vote request with
VotePages == {"neterr", "form", "voted"}

GqlInit == CvIdle /\ SdIdle /\ GqlIdle /\ CliIdle

\* main builds the Context from the header; Mutation::upvote_story
UpvoteStory ==
    \E hdr \in Headers, id \in StoryIds, ua \in UpvoteAuths, page \in VotePages :
        /\ auth_token' = hdr
        /\ request' = [op |-> "upvoteStory", id |-> id, upvote_auth |-> ua]
        /\ IF hdr = None
           THEN /\ sent' = <<>>
                /\ reply' = Err("You must be logged in to upvote a story.")
           ELSE /\ sent' = <<[to |-> "vote", id |-> AsU32(id), auth |-> ua,
                              cookie |-> hdr.some, page |-> page]>>
                /\ reply' =
                       IF upvote_story(page) = Err("reqwest")
                       THEN Err("An error occurred while upvoting the story.")
                       ELSE IF upvote_story(page).ok
                            THEN Ok(TRUE)
                            ELSE Err("Authentication error.")
        /\ UNCHANGED <<cvVars, sdVars, cliVars>>

\* main builds the Context from the header; Query::stories
Stories ==
    \E hdr \in Headers, list \in {Some(l) : l \in Lists} \cup {None},
       page \in {Some(n) : n \in Pages} \cup {None}, net \in {"up", "neterr"} :
        LET l == ListOrDefault(list)
            p == AsUsize(UnwrapOr(page, 1))
        IN /\ auth_token' = hdr
           /\ request' = [op |-> "stories", list |-> list, page |-> page]
           /\ sent' = <<[to |-> l, p |-> p, cookie |-> hdr]>>
           /\ reply' = IF net = "neterr" THEN Err("reqwest")
                       ELSE Ok(SortedByRank(stories_list(l, p)))
           /\ UNCHANGED <<cvVars, sdVars, cliVars>>

\* ------------------------------------------- story and user queries
\* a thread panicked
Panicked == [panic |-> TRUE]

\* the request failed (document_at_url returned Err)
NetErr == [neterr |-> TRUE]

\* indents of the comment rows of a page: no comment, a comment and its
\* reply, a first comment that is not top-level
PageIndents == {<<>>, <<0, 1>>, <<1>>}

\* What the site may answer /item?id= with: no answer, or a page that has
\* the story row (`table.fatitem tr.athing`) or not, whose story row has
\* all that extract_story_info unwraps or not, and whose comment rows have
\* the given indents.
ItemPages ==
    {NetErr} \cup [story : BOOLEAN, rowOk : BOOLEAN, indents : PageIndents]

\* What the site may answer /user?id= with: no answer, or a page that has
\* the user table or not, whose table has all the fields user_details
\* unwraps or not.
UserPages == {NetErr} \cup [table : BOOLEAN, fieldsOk : BOOLEAN]

UserIds == {"scastiel", "ihopethisusernamedoesnotexist"}

RECURSIVE StackRun(_, _, _)
\* lines 220-244 of story_details: whether the loop over the comment rows
\* from row c on, entered with parent stack st, runs to its end (TRUE) or
\* panics at `parent_stack.pop().unwrap()` (FALSE)
StackRun(indents, c, st) ==
    IF c > Len(indents) THEN TRUE
    ELSE LET popped == PopWhile(st, indents[c])
         IN IF indents[c] = 0 THEN StackRun(indents, c + 1, Append(popped, c))
            ELSE IF popped = <<>> THEN FALSE
            ELSE StackRun(indents, c + 1, Append(popped, c))

\* a variant of story_details that fails when the story row is missing
story_detailsMissingIsErr(page) ==
    IF page = NetErr THEN Err("reqwest")
    ELSE IF ~page.story THEN Err("no story")
    ELSE IF ~page.rowOk THEN Panicked
    ELSE IF ~StackRun(page.indents, 1, <<>>) THEN Panicked
    ELSE Ok(Some([comments |-> Len(page.indents)]))
\* api story_details on the page the site answered with
story_details(page) ==
    IF page = NetErr THEN Err("reqwest")
    ELSE IF ~page.story THEN Ok(None)
    ELSE IF ~page.rowOk THEN Panicked
    ELSE IF ~StackRun(page.indents, 1, <<>>) THEN Panicked
    ELSE Ok(Some([comments |-> Len(page.indents)]))

\* api user_details on the page the site answered with
user_details(page) ==
    IF page = NetErr THEN Err("reqwest")
    ELSE IF ~page.table THEN Ok(None)
    ELSE IF ~page.fieldsOk THEN Panicked
    ELSE Ok(Some("user"))

\* Query::story
Story ==
    \E hdr \in Headers, id \in StoryIds, page \in ItemPages :
        /\ auth_token' = hdr
        /\ request' = [op |-> "story", id |-> id]
        /\ sent' = <<[to |-> "item", id |-> AsU32(id), cookie |-> None, page |-> page]>>
        /\ reply' = story_details(page)
        /\ UNCHANGED <<cvVars, sdVars, cliVars>>

\* Query::user
User ==
    \E hdr \in Headers, id \in UserIds, page \in UserPages :
        /\ auth_token' = hdr
        /\ request' = [op |-> "user", id |-> id]
        /\ sent' = <<[to |-> "user", id |-> id, cookie |-> None, page |-> page]>>
        /\ reply' = user_details(page)
        /\ UNCHANGED <<cvVars, sdVars, cliVars>>

GqlNext == UpvoteStory \/ Stories \/ Story \/ User

GqlSpec == GqlInit /\ [][GqlNext]_vars

\* ---------------------------------------------------------------- C19
IsUpvote == request # None /\ request.op = "upvoteStory"

\* C19: upvoteStory without an auth token returns an error and sends no
\* request to the site; it returns true only with a token and when the
\* site took the vote.
C19_UpvoteNeedsAuth ==
    IsUpvote =>
        /\ auth_token = None => IsErr(reply) /\ sent = <<>>
        /\ reply = Ok(TRUE) =>
               /\ auth_token # None
               /\ Len(sent) = 1
               /\ sent[1].cookie = auth_token.some
               /\ sent[1].page = "voted"

\* an upvote without a token has been answered: an error, nothing sent
C19_Witness ==
    /\ IsUpvote
    /\ auth_token = None
    /\ IsErr(reply)
    /\ sent = <<>>

\* ---------------------------------------------------------------- C20
IsStories == request # None /\ request.op = "stories"

FirstPage == SortedByRank(SiteRows(ListOrDefault(request.list), 1))

\* C20: the stories query returns the first page for a page lower than 1
\* (0 or negative) and for an omitted page, and an empty page for a page
\* beyond what the site accepts.
C20_PageBounds ==
    (IsStories /\ reply # Err("reqwest")) =>
        /\ request.page = None => reply = Ok(FirstPage)
        /\ (request.page # None /\ request.page.some < 1) => reply = Ok(FirstPage)
        /\ (request.page # None /\ request.page.some > MaxSitePage) => reply = Ok(<<>>)

\* ============================================ story_details, continued
\* ---------------------------------------------------------------- C24
\* the iteration for a comment with indent > 0 is about to pop its parent
PopsParent == sdPc = "branch" /\ RowIndent(sdPos) # 0

\* C24: story_details does not panic, whatever the indents of the page
\* (first indent above 0 and indent gaps included): whenever a comment with
\* indent > 0 is processed the parent stack is non-empty.
C24_NeverPanics ==
    /\ sdPc # "panic"
    /\ PopsParent => parent_stack # <<>>

\* ---------------------------------------------------------------- C26
\* the scraped indents have no gaps
SdGapFree ==
    \/ SdN = 0
    \/ /\ RowIndent(1) = 0
       /\ \A c \in 2..SdN : RowIndent(c) <= RowIndent(c - 1) + 1

\* the comments in document order, each with its scraped indent
Scraped == [c \in 1..SdN |-> [id |-> IdOf(c), level |-> RowIndent(c)]]

\* C26: for a page without indent gaps the print_comment traversal of the
\* tree story_details built writes the comments in document order, each at
\* the level of its scraped indent.
C26_PrintRoundTrip ==
    (printed # None /\ SdGapFree) => printed.some = Scraped

\* a page three levels deep that comes back up has been printed
C26_Witness ==
    /\ printed # None
    /\ SdGapFree
    /\ SdN = MaxLen
    /\ \E c \in 1..SdN : RowIndent(c) = 2
    /\ RowIndent(SdN) = 1
    /\ printed.some = Scraped

\* ================================================== convert, continued
\* ---------------------------------------------------------------- C25
\* the input positions of the nodes of the returned forest, in pre-order
PreOrderPositions ==
    [k \in 1..Len(PreOrder(result.children)) |-> PosOf(PreOrder(result.children)[k])]

\* C25: for every input, gaps included, the pre-order items of the forest
\* convert returns are a subsequence of the items of the input: each node
\* is the item of an input position, and the positions increase strictly
\* along the pre-order.
C25_PreOrderSubsequence ==
    Done =>
        LET pre == PreOrder(result.children)
        IN /\ \A k \in 1..Len(pre) :
                  /\ \E i \in 1..N : input[i].val = pre[k]
                  /\ PreOrderPositions[k] \in 1..N
                  /\ input[PreOrderPositions[k]].val = pre[k]
           /\ \A k \in 1..(Len(pre) - 1) :
                  PreOrderPositions[k] < PreOrderPositions[k + 1]

\* convert has returned, for an input with a gap, a nested forest that
\* lacks an entry
C25_Witness ==
    /\ Done
    /\ ~GapFree
    /\ Len(PreOrder(result.children)) >= 3
    /\ Len(PreOrder(result.children)) < N
    /\ \E k \in 1..Len(result.children) : result.children[k].children # <<>>

\* =========================== convert and story_details on the same rows
\* The rows of one scraped page, given to both builders: convert gets the
\* (indent, id) pairs, story_details is entered once convert has returned.
EqInit ==
    /\ sdIn \in SdInputs
    /\ input = [i \in 1..SdN |-> Entry(RowIndent(i), IdOf(i))]
    /\ pc = "start"
    /\ stack = <<>>
    /\ result = NoTree
    /\ reads = [i \in 1..SdN |-> <<>>]
    /\ sdPc = "idle"
    /\ sdPos = 0
    /\ comments = <<>>
    /\ parent_stack = <<>>
    /\ local_parent = 0
    /\ childrenOf = <<>>
    /\ parentOf = <<>>
    /\ alive = {}
    /\ flat = None
    /\ printed = None
    /\ GqlIdle
    /\ CliIdle

\* lines 218-219: story_details starts with no comments and an empty stack
StoryDetailsCall ==
    /\ pc = "done"
    /\ sdPc = "idle"
    /\ sdPc' = "loop"
    /\ comments' = <<>>
    /\ parent_stack' = <<>>
    /\ UNCHANGED <<sdIn, sdPos, local_parent, childrenOf, parentOf, alive,
                   flat, printed, cvVars, gqlVars, cliVars>>

EqNext ==
    \/ Next
    \/ StoryDetailsCall
    \/ SdFetch
    \/ SdPushRoot
    \/ SdPanic
    \/ SdAttach
    \/ SdSetParent
    \/ SdReturn

EqSpec == EqInit /\ [][EqNext]_vars

\* ---------------------------------------------------------------- C23
RECURSIVE SdForest(_)
\* the shape of the tree story_details built, over the comment ids
SdForest(list) ==
    [k \in 1..Len(list) |->
        SubTreeNew(IdOf(list[k]), SdForest(childrenOf[list[k]]))]

\* C23: on rows without indent gaps story_details and convert build the
\* same forest over the comment ids: the same roots in the same order and,
\* under every node, the same children in the same order.
C23_SameShape ==
    (Done /\ Built /\ GapFree) => result.children = SdForest(comments)

\* both builders have returned for gap-free rows that nest two levels deep
\* and come back to a second reply of the first comment
C23_Witness ==
    /\ Done
    /\ Built
    /\ GapFree
    /\ N = MaxLen
    /\ Len(comments) = 1
    /\ Len(childrenOf[1]) = 2
    /\ \E c \in 1..SdN : RowIndent(c) = 2
    /\ result.children = SdForest(comments)

\* ================================================ GraphQL, continued
\* ---------------------------------------------------------------- C21
IsStory == request # None /\ request.op = "story"

IsUser == request # None /\ request.op = "user"

\* the page the site answered the last request with
Answer == sent[1].page

IsSome(r) == "ok" \in DOMAIN r /\ r.ok # None

\* C21: story_details and user_details return Ok(None), which is neither
\* an error nor a panic, when the fetched page has no story row / no user
\* table; they return Some only when it has.
C21_MissingIsNone ==
    /\ IsStory =>
           /\ (Answer # NetErr /\ ~Answer.story) => reply = Ok(None)
           /\ IsSome(reply) => (Answer # NetErr /\ Answer.story)
    /\ IsUser =>
           /\ (Answer # NetErr /\ ~Answer.table) => reply = Ok(None)
           /\ IsSome(reply) => (Answer # NetErr /\ Answer.table)

\* a story query has been answered null for a page without the story row,
\* whose comment rows would make the loop panic
C21_Witness ==
    /\ IsStory
    /\ Answer # NetErr
    /\ ~Answer.story
    /\ Answer.indents = <<1>>
    /\ reply = Ok(None)

\* ================================================================ CLI
\* ------------------------------------------------------- parsing
Digit == <<"0", "1", "2", "3", "4", "5", "6", "7", "8", "9">>

RECURSIVE Decimal(_)
\* the decimal digits of a usize, as Display and serde_json write it
Decimal(n) ==
    IF n < 10 THEN Digit[n + 1]
    ELSE Decimal(n \div 10) \o Digit[(n % 10) + 1]

\* the largest number the strings of the model stand for
MaxParsed == PerPage * MaxSitePage + 1

\* the numbers up to MaxParsed as Display writes them
Displayed == [n \in 0..MaxParsed |-> Decimal(n)]

\* the strings that parse to each number up to MaxParsed: its digits, also
\* with a leading zero or a leading plus sign
Parsed ==
    [n \in 0..MaxParsed |-> {Decimal(n), "0" \o Decimal(n), "+" \o Decimal(n)}]

\* `str.parse::<usize>()` and result_to_option: the number, None for a
\* string that is not one
parse_usize(s) ==
    LET c == {n \in 0..MaxParsed : s \in Parsed[n]}
    IN IF c = {} THEN None ELSE Some(CHOOSE n \in c : TRUE)

\* ------------------------------------------------------- the state file
\* A JSON document, by the kind of each value; an object holds its members
\* as a function of their keys.
JNull == [j |-> "null"]

JString(s) == [j |-> "string", v |-> s]

JNumber(n) == [j |-> "number", v |-> n]

JObject(members) == [j |-> "object", m |-> members]

NoMembers == [k \in {} |-> JNull]

\* a file whose content is not JSON / is the JSON document doc
Text(t) == [text |-> t]

Json(doc) == [json |-> doc]

\* Serialize for Story (two of its fields stand for all)
StoryToJson(story) ==
    JObject([title |-> JString(story[1]), id |-> JNumber(story[2])])

\* Deserialize for Story: an object with the fields, of their types
StoryFromJson(v) ==
    IF v.j # "object" THEN Err("invalid type")
    ELSE IF ~({"title", "id"} \subseteq DOMAIN v.m) THEN Err("missing field")
    ELSE IF v.m.title.j # "string" \/ v.m.id.j # "number" THEN Err("invalid type")
    ELSE Ok(<<v.m.title.v, v.m.id.v>>)

\* Serialize for HashMap<usize, Story>: an object keyed by the decimal ranks
MapToJson(map) ==
    JObject([k \in {Displayed[r] : r \in DOMAIN map} |->
                StoryToJson(map[CHOOSE r \in DOMAIN map : Displayed[r] = k])])

\* Deserialize for HashMap<usize, Story>: every key must parse, every value
\* must be a Story
MapFromJson(v) ==
    IF v.j # "object" THEN Err("invalid type")
    ELSE IF \E k \in DOMAIN v.m : parse_usize(k) = None THEN Err("invalid key")
    ELSE IF \E k \in DOMAIN v.m : IsErr(StoryFromJson(v.m[k])) THEN Err("invalid value")
    ELSE Ok([r \in {parse_usize(k).some : k \in DOMAIN v.m} |->
                StoryFromJson(v.m[CHOOSE k \in DOMAIN v.m : parse_usize(k).some = r]).ok])

\* Auth::new: main passes the user name and what login returned
AuthNew(username, token) ==
    [username |-> username, token |-> token.token, expires |-> token.expires]

\* Serialize for Auth
AuthToJson(auth) ==
    JObject([username |-> JString(auth.username), token |-> JString(auth.token),
             expires |-> JString(auth.expires)])

\* Deserialize for Auth
AuthFromJson(v) ==
    IF v.j # "object" THEN Err("invalid type")
    ELSE IF ~({"username", "token", "expires"} \subseteq DOMAIN v.m) THEN Err("missing field")
    ELSE IF \E k \in {"username", "token", "expires"} : v.m[k].j # "string"
         THEN Err("invalid type")
    ELSE Ok([username |-> v.m.username.v, token |-> v.m.token.v,
             expires |-> v.m.expires.v])

\* serde_json::to_string(state): an Option is null or its value
to_string(st) ==
    JObject([last_stories |-> IF st.last_stories = None THEN JNull
                              ELSE MapToJson(st.last_stories.some),
             auth |-> IF st.auth = None THEN JNull ELSE AuthToJson(st.auth.some)])

\* a member of an object; a missing Option field reads as null
Member(v, k) == IF k \in DOMAIN v.m THEN v.m[k] ELSE JNull

\* serde_json::from_str::<State>
from_str(doc) ==
    IF doc.j # "object" THEN Err("invalid type")
    ELSE LET ls == Member(doc, "last_stories")
             au == Member(doc, "auth")
             map == MapFromJson(ls)
             auth == AuthFromJson(au)
         IN IF ls # JNull /\ IsErr(map) THEN map
            ELSE IF au # JNull /\ IsErr(auth) THEN auth
            ELSE Ok([last_stories |-> IF ls = JNull THEN None ELSE Some(map.ok),
                     auth |-> IF au = JNull THEN None ELSE Some(auth.ok)])

\* a variant of read_state that always starts from the clean state
read_stateClean(f) == Default
\* read_state: the state in the file, or the default one when the file
\* cannot be read or its content cannot be deserialized
read_state(f) ==
    IF f = Missing THEN Default
    ELSE IF "text" \in DOMAIN f THEN Default
    ELSE LET parsed == from_str(f.json)
         IN IF IsErr(parsed) THEN Default ELSE parsed.ok

\* what may happen to the file in save_state: written; File::create fails
\* and the file is as it was; write! fails after create truncated the file
IoOutcomes == {"ok", "createfail", "writefail"}

\* the file after save_state(state)
save_state(st, f, io) ==
    IF io = "createfail" THEN f
    ELSE IF io = "writefail" THEN Text("")
    ELSE Json(to_string(st))

\* ------------------------------------------------------- the commands
\* the lists of two of the six list commands (top, the default, and new),
\* whose arms differ in the list only
CliLists == {"News", "Newest"}

\* --page: absent, not a number, the last page of the site, the one after
PageArgs == {None, Some("x"), Some(Displayed[MaxSitePage]), Some(Displayed[MaxSitePage + 1])}

\* INDEX: not a number, the first rank with a sign, the first rank of the
\* second page, a rank no page has
IndexArgs == {"x", "+1", Displayed[PerPage + 1], Displayed[MaxParsed]}

\* the cookie of a login the site accepted: its value and expiry
Cookie == [token |-> "t1", expires |-> "e1"]

\* the pages that may answer the request of `details`
DetailPages ==
    {NetErr, [story |-> FALSE, rowOk |-> FALSE, indents |-> <<>>],
     [story |-> TRUE, rowOk |-> TRUE, indents |-> <<0, 1>>]}

\* get_page_from_matches: the page number, 1 when absent or not a number
get_page_from_matches(page) ==
    IF page = None THEN 1 ELSE UnwrapOr(parse_usize(page.some), 1)

\* a variant of Extend in which the stored entry wins
ExtendKeepOld(map, rows) ==
    [r \in DOMAIN map \cup {row.rank : row \in rows} |->
        IF r \in DOMAIN map THEN map[r]
        ELSE (CHOOSE row \in rows : row.rank = r).story]
\* HashMap::extend: the entries of the page replace those of the same rank
Extend(map, rows) ==
    [r \in DOMAIN map \cup {row.rank : row \in rows} |->
        IF r \in {row.rank : row \in rows}
        THEN (CHOOSE row \in rows : row.rank = r).story
        ELSE map[r]]

\* print_stories, given the page: the stored map extended by the page
print_stories(rows, last_stories) == Extend(UnwrapOr(last_stories, EmptyMap), rows)

\* a variant of get_last_story that falls back to any stored story
get_last_storyAny(st, index) ==
    IF st.last_stories = None THEN None
    ELSE IF index \in DOMAIN st.last_stories.some
         THEN Some(st.last_stories.some[index])
    ELSE IF DOMAIN st.last_stories.some = {} THEN None
    ELSE Some(st.last_stories.some[CHOOSE r \in DOMAIN st.last_stories.some : TRUE])
\* State::get_last_story
get_last_story(st, index) ==
    IF st.last_stories = None THEN None
    ELSE IF index \in DOMAIN st.last_stories.some
         THEN Some(st.last_stories.some[index])
    ELSE None

\* get_story_from_matches: INDEX parsed, then looked up
get_story_from_matches(index, st) ==
    IF parse_usize(index) = None THEN None
    ELSE get_last_story(st, parse_usize(index).some)

\* a variant of SignedIn that never finds the user signed in
SignedInNever(st) == FALSE
\* `if let Some(auth) = state.auth`, `state.auth.is_some()`
SignedIn(st) == st.auth # None

\* a message written to the terminal
Msg(text) == [msg |-> text]

\* ------------------------------------------------------- the state files
\* a state with a first page and a user
StoredState ==
    [last_stories |-> Some(Extend(EmptyMap, SiteRows("Show", 1))),
     auth |-> Some(AuthNew("alice", [token |-> "t0", expires |-> "e0"]))]

\* The file before the first command: absent; not JSON; JSON that is not a
\* State (an array, a rank that is not a number, a user without a token);
\* an empty object; what an earlier command saved.
InitFiles ==
    {Missing, Text("garbage"),
     Json([j |-> "array"]),
     Json(JObject([last_stories |-> JObject([x |-> StoryToJson(<<"Show", 1>>)])])),
     Json(JObject([auth |-> JObject([username |-> JString("alice")])])),
     Json(JObject(NoMembers)),
     Json(to_string(StoredState))}

CliInit ==
    /\ CvIdle
    /\ SdIdle
    /\ GqlIdle
    /\ file \in InitFiles
    /\ state = Default
    /\ cmd = None
    /\ fetched = <<>>
    /\ resolved = None
    /\ out = None
    /\ saved = FALSE
    /\ listed = UnwrapOr(read_state(file).last_stories, EmptyMap)

\* how a command that fetches and then saves may go: the request fails, or
\* it is answered and save_state goes one of its ways
Outcomes == {"neterr"} \cup IoOutcomes

\* main, lines 100-135: a list command
CliList ==
    LET st == read_state(file)
    IN \E list \in CliLists, page \in PageArgs, how \in Outcomes :
           LET p == [high |-> FALSE, low |-> get_page_from_matches(page)]
               rows == stories_list(list, p)
               after == [st EXCEPT !.last_stories =
                                       Some(print_stories(rows, st.last_stories))]
           IN /\ cmd' = [name |-> "list", list |-> list, page |-> page]
              /\ resolved' = None
              /\ IF how = "neterr"
                 THEN /\ fetched' = <<[to |-> list, p |-> p, page |-> NetErr]>>
                      /\ out' = Err("reqwest")
                      /\ state' = st
                      /\ saved' = FALSE
                      /\ UNCHANGED <<file, listed>>
                 ELSE /\ fetched' = <<[to |-> list, p |-> p, page |-> rows]>>
                      /\ state' = after
                      /\ saved' = TRUE
                      /\ file' = save_state(after, file, how)
                      /\ out' = IF how = "ok" THEN Ok("listed") ELSE Err("io")
                      /\ listed' = IF how = "ok" THEN Extend(listed, rows) ELSE listed
              /\ UNCHANGED <<cvVars, sdVars, gqlVars>>

\* main, lines 136-143: details
CliDetails ==
    LET st == read_state(file)
    IN \E index \in IndexArgs, page \in DetailPages :
           LET last_story == get_story_from_matches(index, st)
           IN /\ cmd' = [name |-> "details", index |-> index]
              /\ resolved' = last_story
              /\ state' = st
              /\ saved' = FALSE
              /\ IF last_story = None
                 THEN /\ fetched' = <<>>
                      /\ out' = Msg("Invalid story index.")
                 ELSE /\ fetched' = <<[to |-> "item", id |-> last_story.some[2],
                                       page |-> page]>>
                      /\ out' = IF story_details(page) = Ok(None) THEN Panicked
                                ELSE IF IsSome(story_details(page)) THEN Ok("printed")
                                ELSE story_details(page)
              /\ UNCHANGED <<file, listed, cvVars, sdVars, gqlVars>>

\* main, lines 144-151: open
CliOpen ==
    LET st == read_state(file)
    IN \E index \in IndexArgs, browser \in {"opened", "failed"} :
           LET last_story == get_story_from_matches(index, st)
           IN /\ cmd' = [name |-> "open", index |-> index]
              /\ resolved' = last_story
              /\ state' = st
              /\ saved' = FALSE
              /\ fetched' = <<>>
              /\ out' = IF last_story = None THEN Msg("Invalid story index.")
                        ELSE IF browser = "failed"
                             THEN Msg("Error while opening the default browser.")
                        ELSE Ok("opened")
              /\ UNCHANGED <<file, listed, cvVars, sdVars, gqlVars>>

\* main, lines 152-161: user
CliUser ==
    \E page \in UserPages :
        /\ cmd' = [name |-> "user", id |-> "scastiel"]
        /\ resolved' = None
        /\ state' = read_state(file)
        /\ saved' = FALSE
        /\ fetched' = <<[to |-> "user", id |-> "scastiel", page |-> page]>>
        /\ out' = IF user_details(page) = Ok(None) THEN Msg("Invalid user name.")
                  ELSE IF IsSome(user_details(page)) THEN Ok("printed")
                  ELSE user_details(page)
        /\ UNCHANGED <<file, listed, cvVars, sdVars, gqlVars>>

\* main, lines 162-177: login
CliLogin ==
    LET st == read_state(file)
    IN \E how \in Outcomes \cup {"refused"} :
           LET token == IF how = "neterr" THEN Err("reqwest")
                        ELSE IF how = "refused" THEN Ok(None)
                        ELSE Ok(Some(Cookie))
               after == [st EXCEPT !.auth = Some(AuthNew("alice", token.ok.some))]
           IN /\ cmd' = [name |-> "login"]
              /\ resolved' = None
              /\ IF SignedIn(st)
                 THEN /\ fetched' = <<>>
                      /\ out' = Msg("Already signed in.")
                      /\ state' = st
                      /\ saved' = FALSE
                      /\ UNCHANGED file
                 ELSE /\ fetched' = <<[to |-> "login", username |-> "alice",
                                       page |-> token]>>
                      /\ IF IsErr(token)
                         THEN /\ out' = token
                              /\ state' = st
                              /\ saved' = FALSE
                              /\ UNCHANGED file
                         ELSE IF token = Ok(None)
                         THEN /\ out' = Msg("Invalid username or password.")
                              /\ state' = st
                              /\ saved' = FALSE
                              /\ UNCHANGED file
                         ELSE /\ state' = after
                              /\ saved' = TRUE
                              /\ file' = save_state(after, file, how)
                              /\ out' = IF how = "ok" THEN Ok("Successfully signed in.")
                                        ELSE Err("io")
              /\ UNCHANGED <<listed, cvVars, sdVars, gqlVars>>

\* main, lines 178-186: logout
CliLogout ==
    LET st == read_state(file)
        after == [st EXCEPT !.auth = None]
    IN \E io \in IoOutcomes :
           /\ cmd' = [name |-> "logout"]
           /\ resolved' = None
           /\ fetched' = <<>>
           /\ IF SignedIn(st)
              THEN /\ state' = after
                   /\ saved' = TRUE
                   /\ file' = save_state(after, file, io)
                   /\ out' = IF io = "ok" THEN Ok("Signed out.") ELSE Err("io")
              ELSE /\ state' = st
                   /\ saved' = FALSE
                   /\ out' = Msg("Not signed in.")
                   /\ UNCHANGED file
           /\ UNCHANGED <<listed, cvVars, sdVars, gqlVars>>

CliNext == CliList \/ CliDetails \/ CliOpen \/ CliUser \/ CliLogin \/ CliLogout

CliSpec == CliInit /\ [][CliNext]_vars

\* ---------------------------------------------------------------- C22
\* the file cannot be read, or its content cannot be deserialized
Unreadable(f) ==
    \/ f = Missing
    \/ "text" \in DOMAIN f
    \/ IsErr(from_str(f.json))

\* the last command called save_state and save_state wrote the file
Wrote == saved /\ "ok" \in DOMAIN out

\* C22: read_state never fails; it returns the default state (last_stories
\* and auth None) when the file is missing or cannot be deserialized, and
\* the state save_state wrote when the file holds what it last wrote.
C22_ReadState ==
    /\ DOMAIN read_state(file) = {"last_stories", "auth"}
    /\ Unreadable(file) => read_state(file) = Default
    /\ Wrote => read_state(file) = state

\* save_state has written a state with a user and stories of two pages,
\* and read_state gives it back
C22_Witness ==
    /\ Wrote
    /\ state.auth # None
    /\ state.last_stories # None
    /\ {1, PerPage * MaxSitePage} \subseteq DOMAIN state.last_stories.some
    /\ read_state(file) = state

\* ---------------------------------------------------------------- C27
\* the stored map of a state, empty when it has none
StoredMap(st) == UnwrapOr(st.last_stories, EmptyMap)

C27_Step ==
    LET prev == StoredMap(read_state(file))
    IN /\ (cmd'.name = "list" /\ out' = Ok("listed")) =>
              LET rows == fetched'[1].page
                  new == StoredMap(state')
              IN /\ state'.last_stories # None
                 /\ \A row \in rows :
                        row.rank \in DOMAIN new /\ new[row.rank] = row.story
                 /\ \A r \in DOMAIN prev :
                        r \notin {row.rank : row \in rows} =>
                            r \in DOMAIN new /\ new[r] = prev[r]
                 /\ read_state(file') = state'
       /\ (/\ cmd'.name \in {"details", "open"}
           /\ parse_usize(cmd'.index) # None
           /\ parse_usize(cmd'.index).some \in DOMAIN prev) =>
              LET index == parse_usize(cmd'.index).some
              IN /\ resolved' = Some(prev[index])
                 /\ index \in DOMAIN listed
                 /\ prev[index] = listed[index]

\* C27: after a list command that ended well, last_stories holds every
\* story of the fetched page under its rank and every entry stored before
\* whose rank is not in the page, and the file holds that state; a later
\* details / open INDEX gets the entry stored under INDEX, the story the
\* last list command that ended well listed at that rank.
C27_ListThenResolve == [][C27_Step]_vars

\* a list command has replaced the stored first page by that of another
\* list and kept the stored last page
C27_Witness ==
    /\ cmd # None
    /\ cmd.name = "list"
    /\ cmd.list = "News"
    /\ out = Ok("listed")
    /\ DOMAIN StoredMap(state) = 1..PerPage \cup ((PerPage * (MaxSitePage - 1) + 1)..(PerPage * MaxSitePage))
    /\ StoredMap(state)[1] = <<"News", 1>>
    /\ StoredMap(state)[PerPage * MaxSitePage] = <<"Newest", PerPage * MaxSitePage>>
    /\ listed = StoredMap(state)

\* ---------------------------------------------------------------- C28
\* the last command was a login the site accepted
Accepted(sent1) == sent1 # <<>> /\ sent1[1].page = Ok(Some(Cookie))

C28_Step ==
    LET st == read_state(file)
    IN /\ state'.auth # st.auth =>
              \/ /\ cmd'.name = "login"
                 /\ Accepted(fetched')
                 /\ st.auth = None
                 /\ state'.auth # None
              \/ /\ cmd'.name = "logout"
                 /\ st.auth # None
                 /\ state'.auth = None
       /\ state'.last_stories # st.last_stories => cmd'.name = "list"
       /\ cmd'.name = "list" => state'.auth = st.auth
       /\ cmd'.name \in {"login", "logout"} => state'.last_stories = st.last_stories
       /\ (\/ cmd'.name = "login" /\ st.auth # None
           \/ cmd'.name = "login" /\ ~Accepted(fetched')
           \/ cmd'.name = "logout" /\ st.auth = None) =>
              /\ state' = st
              /\ ~saved'
              /\ file' = file
       /\ out' # Err("io") => read_state(file') = state'

\* C28: auth changes only by a login the site accepted (None to Some) and
\* by a logout while signed in (Some to None), last_stories only by a list
\* command; a list command leaves auth as it was, login and logout leave
\* last_stories as it was; a login while signed in, a login that failed
\* and a logout while not signed in leave the state as it was and do not
\* write the file.  Unless save_state failed, the next command reads the state
\* the command ended with.
C28_AuthFrame == [][C28_Step]_vars

\* a login while signed in ended without a request and without a save
C28_Witness ==
    /\ cmd # None
    /\ cmd.name = "login"
    /\ out = Msg("Already signed in.")
    /\ fetched = <<>>
    /\ ~saved
    /\ state.auth # None
    /\ state.last_stories # None
    /\ read_state(file) = state

\* ---------------------------------------------------------------- C29
C29_Step ==
    cmd'.name \in {"details", "open"} =>
        LET st == read_state(file)
            index == parse_usize(cmd'.index)
            invalid == \/ index = None
                       \/ st.last_stories = None
                       \/ index.some \notin DOMAIN st.last_stories.some
        IN /\ state' = st
           /\ file' = file
           /\ ~saved'
           /\ invalid =>
                  /\ out' = Msg("Invalid story index.")
                  /\ fetched' = <<>>
                  /\ resolved' = None
           /\ ~invalid =>
                  /\ resolved' = Some(st.last_stories.some[index.some])
                  /\ cmd'.name = "details" =>
                         /\ Len(fetched') = 1
                         /\ fetched'[1].id = st.last_stories.some[index.some][2]

\* C29: details and open never modify or save the state; with an INDEX
\* that is not a number or not a key of last_stories (last_stories None
\* included) they report an invalid story index and fetch nothing; with a
\* valid INDEX they only read the stored story.
C29_DetailsReadOnly == [][C29_Step]_vars

\* details with a number for INDEX, while stories of another page are
\* stored, has reported an invalid index and fetched nothing
C29_Witness ==
    /\ cmd # None
    /\ cmd.name = "details"
    /\ cmd.index = Displayed[PerPage + 1]
    /\ state.last_stories # None
    /\ DOMAIN state.last_stories.some = 1..PerPage
    /\ out = Msg("Invalid story index.")
    /\ fetched = <<>>
    /\ resolved = None

====
